---- MODULE Spec2Model ----
(***************************************************************************)
(* A model of the project dependency analyzer (src/main.py).               *)
(*                                                                         *)
(* Text is modelled character by character: a str is a sequence of         *)
(* one-character strings, so that strip, split, startswith and the regular *)
(* expressions of the source are computed the way Python computes them.    *)
(* Language labels are only ever compared for equality and stay TLA+       *)
(* strings.                                                                *)
(***************************************************************************)
EXTENDS Integers, Sequences, FiniteSets, TLC

VARIABLES
    \* detect_language
    det_pc,        \* "idle" | "walk" | "returned"
    det_files,     \* the file names os.walk yields, in walk order
    det_i,         \* the number of files already visited
    counts,        \* counts[lang]
    det_result     \* the value detect_language returned

detVars == <<det_pc, det_files, det_i, counts, det_result>>

VARIABLES
    \* one call of a manifest parser (parse_python_file, parse_ruby_file,
    \* parse_go_mod, parse_javascript_file, parse_java_file)
    par_pc,        \* "idle" | "open" | "loop" | "returned"
    par_file,      \* the manifest file the parser is called on
    par_i,         \* the number of lines the file iterator has yielded
    par_st,        \* the parser's local state: in_gems, the go.mod block loop, break
    dependencies,  \* the parser's local list `dependencies`
    par_yield      \* history: par_yield[i] = the records appended while line i was current

parVars == <<par_pc, par_file, par_i, par_st, dependencies, par_yield>>

VARIABLES
    \* one call of extract_code_dependencies
    scan_pc,       \* "idle" | "walk" | "raised" | "returned"
    scan_lang,     \* the language argument
    scan_files,    \* the files os.walk yields, in walk order
    scan_i,        \* the number of files already visited
    scan_log,      \* the local list `dependencies`, each name with the module
                   \* reference it was cut from
    code_deps      \* the list returned

scanVars == <<scan_pc, scan_lang, scan_files, scan_i, scan_log, code_deps>>

VARIABLES
    \* main
    main_pc,       \* "idle" | "start" | "invalid" | "undetected" | "find" | "parse"
                   \* | "crashed" | "dedup" | "done"
    directory,     \* args.directory: whether it is a directory, and its walk
    language,      \* main's local `language`
    dep_files,     \* main's local `dep_files`
    parse_k,       \* the number of manifest files already parsed
    main_dependencies,  \* main's local list `dependencies`
    seen,          \* main's local set `seen`
    unique_deps,   \* main's local list `unique_deps`
    dedup_k,       \* the number of records the de-duplication has visited
    report         \* the report printed (NoReport before)

dedupVars == <<seen, unique_deps, dedup_k, report>>

mainVars == <<main_pc, directory, language, dep_files, parse_k, main_dependencies,
              dedupVars>>

vars == <<detVars, parVars, scanVars, mainVars>>

----------------------------------------------------------------------------
(* str primitives *)

\* Python's None where a str is expected (no str is equal to it: every
\* element of a str is one character long).
None == <<"<None>">>

\* None as the language detect_language returns.
NoneLang == "<None>"

Ws == {" ", "\t", "\n"}

UpperSeq == <<"A","B","C","D","E","F","G","H","I","J","K","L","M",
              "N","O","P","Q","R","S","T","U","V","W","X","Y","Z">>

LowerSeq == <<"a","b","c","d","e","f","g","h","i","j","k","l","m",
              "n","o","p","q","r","s","t","u","v","w","x","y","z">>

Digits == {"0","1","2","3","4","5","6","7","8","9"}

\* \w of the re module
WordChars == {UpperSeq[i] : i \in DOMAIN UpperSeq}
             \cup {LowerSeq[i] : i \in DOMAIN LowerSeq}
             \cup Digits \cup {"_"}

\* the lower-case letter of each upper-case letter
ToLower ==
    [c \in {UpperSeq[i] : i \in DOMAIN UpperSeq} |->
        LowerSeq[CHOOSE i \in DOMAIN UpperSeq : UpperSeq[i] = c]]

LowerChar(c) == IF c \in DOMAIN ToLower THEN ToLower[c] ELSE c

\* str.lower
Lower(s) == [i \in DOMAIN s |-> LowerChar(s[i])]

\* s[i:] with i a 1-based position
From(s, i) == IF i > Len(s) THEN <<>> ELSE SubSeq(s, i, Len(s))

\* s[:i-1] with i a 1-based position
Before(s, i) == IF i <= 1 THEN <<>> ELSE SubSeq(s, 1, i - 1)

\* s.startswith(p, i-1)
StartsWithAt(s, p, i) ==
    /\ i + Len(p) - 1 <= Len(s)
    /\ \A k \in 1..Len(p) : s[i + k - 1] = p[k]

\* str.startswith
StartsWith(s, p) == StartsWithAt(s, p, 1)

\* str.endswith
EndsWith(s, p) == Len(p) <= Len(s) /\ StartsWithAt(s, p, Len(s) - Len(p) + 1)

\* the positions where sep occurs in s
Occurrences(s, sep) == {i \in 1..Len(s) : StartsWithAt(s, sep, i)}

Min(S) == CHOOSE x \in S : \A y \in S : x <= y

Max(S) == CHOOSE x \in S : \A y \in S : x >= y

\* s.split(sep)[0]
SplitFirst(s, sep) ==
    IF Occurrences(s, sep) = {} THEN s ELSE Before(s, Min(Occurrences(s, sep)))

\* s.rsplit(sep, 1)[0]
RSplitFirst(s, sep) ==
    IF Occurrences(s, sep) = {} THEN s ELSE Before(s, Max(Occurrences(s, sep)))

\* s.strip(chars)
StripChars(s, chars) ==
    LET keep == {i \in 1..Len(s) : s[i] \notin chars}
    IN  IF keep = {} THEN <<>> ELSE SubSeq(s, Min(keep), Max(keep))

\* s.strip()
Strip(s) == StripChars(s, Ws)

\* s.split(): the maximal runs of non-whitespace, in order
RECURSIVE SplitWs(_)
SplitWs(s) ==
    LET st == {i \in 1..Len(s) : s[i] \notin Ws}
    IN  IF st = {} THEN <<>>
        ELSE LET b  == Min(st)
                 ws == {i \in b..Len(s) : s[i] \in Ws}
                 e  == IF ws = {} THEN Len(s) + 1 ELSE Min(ws)
             IN  <<SubSeq(s, b, e - 1)>> \o SplitWs(From(s, e))

\* the first position >= i of s that is not whitespace (Len(s)+1 if none)
SkipWs(s, i) ==
    LET st == {k \in i..Len(s) : s[k] \notin Ws}
    IN  IF st = {} THEN Len(s) + 1 ELSE Min(st)

\* the first position >= i of s whose character is not in cls
SkipClass(s, i, cls) ==
    LET st == {k \in i..Len(s) : s[k] \notin cls}
    IN  IF st = {} THEN Len(s) + 1 ELSE Min(st)

----------------------------------------------------------------------------
(* detect_language *)

\* os.path.splitext(file)[1] for a file name without directory part
SplitExt(file) ==
    LET dots == {i \in 1..Len(file) : file[i] = "."}
    IN  IF dots = {} THEN <<>>
        ELSE LET d == Max(dots)
             IN  IF \E k \in 1..(d - 1) : file[k] # "."
                 THEN From(file, d) ELSE <<>>

\* language_extensions, in declaration order (the dict's iteration order)
language_extensions == <<
    [lang |-> "Python",     exts |-> {<<".","p","y">>}],
    [lang |-> "JavaScript", exts |-> {<<".","j","s">>, <<".","j","s","x">>}],
    [lang |-> "Java",       exts |-> {<<".","j","a","v","a">>}],
    [lang |-> "Ruby",       exts |-> {<<".","r","b">>}],
    [lang |-> "Go",         exts |-> {<<".","g","o">>}],
    [lang |-> "C",          exts |-> {<<".","c">>, <<".","h">>}],
    [lang |-> "C++",        exts |-> {<<".","c","p","p">>, <<".","h","p","p">>,
                                      <<".","c","c">>}],
    [lang |-> "TypeScript", exts |-> {<<".","t","s">>, <<".","t","s","x">>}],
    [lang |-> "PHP",        exts |-> {<<".","p","h","p">>}],
    [lang |-> "Rust",       exts |-> {<<".","r","s">>}] >>

Languages == {language_extensions[i].lang : i \in DOMAIN language_extensions}

\* counts = {lang: 0 for lang in language_extensions}
ZeroCounts == [l \in Languages |-> 0]

\* language_extensions[lang]
ExtsOf ==
    [l \in Languages |->
        language_extensions[CHOOSE i \in DOMAIN language_extensions :
                                language_extensions[i].lang = l].exts]

\* the loop body with the extension compared as written (no .lower())
CountFileCaseSensitive(c, file) ==
    LET ext == SplitExt(file)
    IN  [l \in Languages |-> IF ext \in ExtsOf[l] THEN c[l] + 1 ELSE c[l]]

\* the body of the loop over one file: every language whose list holds the
\* lower-cased extension is incremented
CountFile(c, file) ==
    LET ext == Lower(SplitExt(file))
    IN  [l \in Languages |-> IF ext \in ExtsOf[l] THEN c[l] + 1 ELSE c[l]]

\* sum(counts.values())
SumCounts(c) ==
    LET RECURSIVE S(_)
        S(i) == IF i = 0 THEN 0 ELSE c[language_extensions[i].lang] + S(i - 1)
    IN  S(Len(language_extensions))

\* a max that keeps the last of the tied keys
MaxKeyLast(c) ==
    LET RECURSIVE Best(_)
        Best(i) ==
            IF i = 1 THEN language_extensions[1].lang
            ELSE LET b == Best(i - 1)
                     l == language_extensions[i].lang
                 IN  IF c[l] >= c[b] THEN l ELSE b
    IN  Best(Len(language_extensions))

\* max(counts, key=counts.get): the dict is iterated in insertion order and
\* a later key replaces the best one only when its value is strictly greater
MaxKey(c) ==
    LET RECURSIVE Best(_)
        Best(i) ==
            IF i = 1 THEN language_extensions[1].lang
            ELSE LET b == Best(i - 1)
                     l == language_extensions[i].lang
                 IN  IF c[l] > c[b] THEN l ELSE b
    IN  Best(Len(language_extensions))

\* the value detect_language returns for final counts c
DetectReturn(c) == IF SumCounts(c) = 0 THEN NoneLang ELSE MaxKey(c)

\* detect_language as a function of the walk
RECURSIVE CountAll(_, _)
CountAll(c, files) ==
    IF files = <<>> THEN c ELSE CountAll(CountFile(c, Head(files)), Tail(files))

detect_language(files) == DetectReturn(CountAll(ZeroCounts, files))

\* Bound: the number of files in a walked tree.
MaxFiles == 3

\* The file names a walked tree is drawn from.
FileNames == {
    <<"a",".","p","y">>,
    <<"B",".","P","Y">>,
    <<".","p","y">>,
    <<"i",".","j","s">>,
    <<"M",".","j","a","v","a">>,
    <<"x",".","r","b">>,
    <<"m",".","g","o">>,
    <<"c",".","h">>,
    <<"t",".","t","s">>,
    <<"r",".","r","s">>,
    <<"R","E","A","D","M","E">>,
    <<"a",".","p","y",".","t","x","t">> }

ScanIdle ==
    /\ scan_pc = "idle"
    /\ scan_lang = NoneLang
    /\ scan_files = <<>>
    /\ scan_i = 0
    /\ scan_log = <<>>
    /\ code_deps = <<>>

NoReport == [language |-> NoneLang, dependencies |-> <<>>]

DedupIdle ==
    /\ seen = {}
    /\ unique_deps = <<>>
    /\ dedup_k = 0
    /\ report = NoReport

MainIdle ==
    /\ main_pc = "idle"
    /\ directory = [isdir |-> FALSE, files |-> <<>>]
    /\ language = NoneLang
    /\ dep_files = <<>>
    /\ parse_k = 0
    /\ main_dependencies = <<>>
    /\ DedupIdle

SeqsUpTo(S, n) == UNION {[1..k -> S] : k \in 0..n}

DetectIdle ==
    /\ det_pc = "idle"
    /\ det_files = <<>>
    /\ det_i = 0
    /\ counts = ZeroCounts
    /\ det_result = NoneLang

ParseIdle ==
    /\ par_pc = "idle"
    /\ par_file = [name |-> <<>>]
    /\ par_i = 0
    /\ par_st = [in_gems |-> FALSE, in_block |-> FALSE, stopped |-> FALSE]
    /\ dependencies = <<>>
    /\ par_yield = <<>>

DetectInit ==
    /\ det_pc = "walk"
    /\ det_files \in SeqsUpTo(FileNames, MaxFiles)
    /\ det_i = 0
    /\ counts = ZeroCounts
    /\ det_result = NoneLang
    /\ ParseIdle
    /\ ScanIdle
    /\ MainIdle

\* one iteration of `for file in files`
DetectVisit ==
    /\ det_pc = "walk"
    /\ det_i < Len(det_files)
    /\ counts' = CountFile(counts, det_files[det_i + 1])
    /\ det_i' = det_i + 1
    /\ UNCHANGED <<det_pc, det_files, det_result>>
    /\ UNCHANGED <<parVars, scanVars, mainVars>>

\* the two return statements after the walk
DetectFinish ==
    /\ det_pc = "walk"
    /\ det_i = Len(det_files)
    /\ det_result' = DetectReturn(counts)
    /\ det_pc' = "returned"
    /\ UNCHANGED <<det_files, det_i, counts>>
    /\ UNCHANGED <<parVars, scanVars, mainVars>>

DetectNext == DetectVisit \/ DetectFinish

SpecDetect == DetectInit /\ [][DetectNext]_vars

----------------------------------------------------------------------------
(* The manifest parsers *)

REQUIREMENTS_TXT == <<"r","e","q","u","i","r","e","m","e","n","t","s",".","t","x","t">>

GEMFILE_LOCK == <<"G","e","m","f","i","l","e",".","l","o","c","k">>

GO_MOD == <<"g","o",".","m","o","d">>

PACKAGE_JSON == <<"p","a","c","k","a","g","e",".","j","s","o","n">>

POM_XML == <<"p","o","m",".","x","m","l">>

\* {'name': n, 'version': v, 'source': src}
Rec(n, v, src) == [name |-> n, version |-> v, source |-> src]

\* the alternatives of the pattern ==|>=|<=|>|<|~=|!= in the order written
VersionOps == << <<"=","=">>, <<">","=">>, <<"<","=">>, <<">">>, <<"<">>,
                 <<"~","=">>, <<"!","=">> >>

\* re.split(r'==|>=|<=|>|<|~=|!=', line, 1): the leftmost match splits the
\* line; at that position the first alternative that matches is the one taken
SplitVersionOp(line) ==
    LET hits == {i \in 1..Len(line) :
                    \E k \in DOMAIN VersionOps : StartsWithAt(line, VersionOps[k], i)}
    IN  IF hits = {} THEN <<line>>
        ELSE LET p  == Min(hits)
                 k  == Min({j \in DOMAIN VersionOps : StartsWithAt(line, VersionOps[j], p)})
             IN  <<Before(line, p), From(line, p + Len(VersionOps[k]))>>

\* the records one line of requirements.txt appends (the loop body)
ReqLine(raw) ==
    LET line == Strip(raw)
    IN  IF line # <<>> /\ ~StartsWith(line, <<"#">>)
        THEN LET parts == SplitVersionOp(line)
             IN  <<Rec(Strip(parts[1]),
                       IF Len(parts) > 1 THEN Strip(parts[2]) ELSE None,
                       REQUIREMENTS_TXT)>>
        ELSE <<>>

\* the Gemfile.lock loop body without the break on a blank line
GemLockLineNoBreak(st, raw) ==
    LET line == Strip(raw)
    IN  IF line = <<"G","E","M","S">>
        THEN [st |-> [st EXCEPT !.in_gems = TRUE], out |-> <<>>]
        ELSE IF st.in_gems /\ StartsWith(line, <<"s","p","e","c","s",":">>)
        THEN [st |-> st, out |-> <<>>]
        ELSE IF st.in_gems
        THEN LET parts == SplitWs(line)
             IN  [st  |-> st,
                  out |-> IF Len(parts) >= 2
                          THEN <<Rec(parts[1], StripChars(parts[2], {"(", ")"}),
                                     GEMFILE_LOCK)>>
                          ELSE <<>>]
        ELSE [st |-> st, out |-> <<>>]

\* one iteration of the Gemfile.lock loop: the new local state and the
\* records appended
GemLockLine(st, raw) ==
    LET line == Strip(raw)
    IN  IF line = <<"G","E","M","S">>
        THEN [st |-> [st EXCEPT !.in_gems = TRUE], out |-> <<>>]
        ELSE IF st.in_gems /\ StartsWith(line, <<"s","p","e","c","s",":">>)
        THEN [st |-> st, out |-> <<>>]
        ELSE IF st.in_gems /\ line = <<>>
        THEN [st |-> [st EXCEPT !.stopped = TRUE], out |-> <<>>]
        ELSE IF st.in_gems
        THEN LET parts == SplitWs(line)
             IN  [st  |-> st,
                  out |-> IF Len(parts) >= 2
                          THEN <<Rec(parts[1], StripChars(parts[2], {"(", ")"}),
                                     GEMFILE_LOCK)>>
                          ELSE <<>>]
        ELSE [st |-> st, out |-> <<>>]

\* one iteration of parse_go_mod's loops: the outer `for line in f` when
\* in_block is FALSE, the inner one when it is TRUE
GoModLineMode(st, raw) ==
    LET line == Strip(raw)
    IN  IF StartsWith(line, <<"r","e","q","u","i","r","e"," ","(">>)
        THEN [st |-> [st EXCEPT !.in_block = TRUE], out |-> <<>>]
        ELSE IF StartsWith(line, <<"r","e","q","u","i","r","e">>)
        THEN LET parts == SplitWs(line)
             IN  [st  |-> st,
                  out |-> IF Len(parts) >= 3
                          THEN <<Rec(parts[2], parts[3], GO_MOD)>> ELSE <<>>]
        ELSE [st |-> st, out |-> <<>>]

\* the inner loop body without the test for // comments
GoModBlockModeKeepsComments(st, raw) ==
    LET line == Strip(raw)
    IN  IF line = <<")">>
        THEN [st |-> [st EXCEPT !.in_block = FALSE], out |-> <<>>]
        ELSE IF line # <<>>
        THEN LET parts == SplitWs(line)
             IN  [st  |-> st,
                  out |-> IF Len(parts) >= 2
                          THEN <<Rec(parts[1], parts[2], GO_MOD)>> ELSE <<>>]
        ELSE [st |-> st, out |-> <<>>]

GoModBlockMode(st, raw) ==
    LET line == Strip(raw)
    IN  IF line = <<")">>
        THEN [st |-> [st EXCEPT !.in_block = FALSE], out |-> <<>>]
        ELSE IF line # <<>> /\ ~StartsWith(line, <<"/","/">>)
        THEN LET parts == SplitWs(line)
             IN  [st  |-> st,
                  out |-> IF Len(parts) >= 2
                          THEN <<Rec(parts[1], parts[2], GO_MOD)>> ELSE <<>>]
        ELSE [st |-> st, out |-> <<>>]

GoModLine(st, raw) ==
    IF st.in_block THEN GoModBlockMode(st, raw) ELSE GoModLineMode(st, raw)

\* the names the module binds at import time (lines 1-9): ET is not one
ModuleGlobals == {"os", "argparse", "json", "re", "toml"}

\* parse_javascript_file after json.load: both sections in order, name and
\* version taken as they are
JsRecords(doc, source) ==
    LET Section(entries) ==
            [i \in DOMAIN entries |-> Rec(entries[i][1], entries[i][2], source)]
    IN  Section(doc.dependencies) \o Section(doc.devDependencies)

\* the loop of parse_java_file over the dependency elements of a pom.xml
PomRecords(doc) ==
    [i \in DOMAIN doc.deps |->
        Rec(doc.deps[i].groupId \o <<":">> \o doc.deps[i].artifactId,
            doc.deps[i].version, POM_XML)]

\* the local state of a parser before its first line
ParserStart == [in_gems |-> FALSE, in_block |-> FALSE, stopped |-> FALSE]

\* one iteration of the line loop of the parser that file name selects
LineStep(name, st, raw) ==
    IF name = REQUIREMENTS_TXT THEN [st |-> st, out |-> ReqLine(raw)]
    ELSE IF name = GEMFILE_LOCK THEN GemLockLine(st, raw)
    ELSE GoModLine(st, raw)

LineOriented(name) == name \in {REQUIREMENTS_TXT, GEMFILE_LOCK, GO_MOD}

----------------------------------------------------------------------------
(* The inputs of the parsers *)

\* Bound: the number of lines of a generated manifest file.
MaxLines == 3

\* a text file as `for line in f` yields it: every line ends with a newline
WithNewlines(ls) == [i \in DOMAIN ls |-> ls[i] \o <<"\n">>]

NoJson == [ok |-> FALSE, dependencies |-> <<>>, devDependencies |-> <<>>]

NoXml == [ok |-> FALSE, deps |-> <<>>]

TextFile(name, ls) ==
    [name |-> name, readable |-> TRUE, lines |-> WithNewlines(ls),
     json |-> NoJson, xml |-> NoXml]

\* a file open() fails on (permission denied, vanished)
Unreadable(file) == [file EXCEPT !.readable = FALSE]

\* lines of a requirements.txt
ReqLines == {
    <<"f","l","a","s","k","=","=","2",".","0",".","1">>,
    <<"#"," ","c","o","m","m","e","n","t">>,
    <<"r","e","q","u","e","s","t","s">>,
    <<"f","l","a","s","k","=","=">>,
    <<" ","a"," ",">","="," ","1">>,
    <<"b","~","=","2">>,
    <<>> }

\* lines of a Gemfile.lock
GemLockLines == {
    <<"G","E","M","S">>,
    <<" "," ","s","p","e","c","s",":">>,
    <<" "," "," "," ","r","a","i","l","s"," ","(","7",".","0",".","0",")">>,
    <<" "," "," "," ","n","o","k","o","g","i","r","i"," ","(","1",".","1","4",".","0",")">>,
    <<>>,
    <<" "," "," "," ","r","u","b","y">> }

\* a GEMS block, a blank line, and a second GEMS block
GemLockExample == <<
    <<"G","E","M","S">>,
    <<" "," ","s","p","e","c","s",":">>,
    <<" "," "," "," ","r","a","i","l","s"," ","(","7",".","0",".","0",")">>,
    <<" "," "," "," ","n","o","k","o","g","i","r","i"," ","(","1",".","1","4",".","0",")">>,
    <<>>,
    <<"G","E","M","S">>,
    <<" "," "," "," ","r","a","k","e"," ","(","1","3",".","0",")">> >>

\* lines of a go.mod
GoModLines == {
    <<"r","e","q","u","i","r","e"," ","(">>,
    <<"\t","a","/","b"," ","v","1">>,
    <<"\t","c"," ","v","2">>,
    <<"\t","/","/"," ","x"," ","y">>,
    <<")">>,
    <<"r","e","q","u","i","r","e"," ","d"," ","v","3">>,
    <<>>,
    <<"m","o","d","u","l","e"," ","m">> }

\* a block of three module lines and a comment, then a standalone require
GoModExample == <<
    <<"m","o","d","u","l","e"," ","m">>,
    <<>>,
    <<"r","e","q","u","i","r","e"," ","(">>,
    <<"\t","a","/","b"," ","v","1">>,
    <<"\t","c"," ","v","2">>,
    <<"\t","d"," ","v","3">>,
    <<"\t","/","/"," ","x"," ","y">>,
    <<")">>,
    <<"r","e","q","u","i","r","e"," ","e"," ","v","4">> >>

\* package.json documents as json.load returns them (ok = FALSE: it raises)
JsonDocs == {
    NoJson,
    [ok |-> TRUE, dependencies |-> <<>>, devDependencies |-> <<>>],
    [ok |-> TRUE,
     dependencies |-> << << <<"l","o","d","a","s","h">>, <<"^","4">> >> >>,
     devDependencies |-> << << <<"j","e","s","t">>, <<>> >> >>],
    [ok |-> TRUE,
     dependencies |-> << << <<"l","o","d","a","s","h">>, <<"1">> >>,
                         << <<"j","e","s","t">>, <<"2">> >> >>,
     devDependencies |-> <<>>] }

\* pom.xml documents as ET.parse would read them: the dependency elements in
\* document order, version = None when the element has no version child
PomDocs == {
    NoXml,
    [ok |-> TRUE, deps |-> <<>>],
    [ok |-> TRUE,
     deps |-> << [groupId |-> <<"o","r","g",".","a">>, artifactId |-> <<"b">>, version |-> <<"1",".","0">>],
                 [groupId |-> <<"c">>, artifactId |-> <<"d">>, version |-> None] >>] }

JsonFile(doc) ==
    [name |-> PACKAGE_JSON, readable |-> TRUE, lines |-> <<>>, json |-> doc, xml |-> NoXml]

PomFile(doc) ==
    [name |-> POM_XML, readable |-> TRUE, lines |-> <<>>, json |-> NoJson, xml |-> doc]

ParseInputs ==
    {TextFile(REQUIREMENTS_TXT, ls) : ls \in SeqsUpTo(ReqLines, MaxLines)}
    \cup {TextFile(GEMFILE_LOCK, ls) : ls \in SeqsUpTo(GemLockLines, MaxLines)}
    \cup {TextFile(GO_MOD, ls) : ls \in SeqsUpTo(GoModLines, MaxLines)}
    \cup {TextFile(GEMFILE_LOCK, GemLockExample), TextFile(GO_MOD, GoModExample)}
    \cup {Unreadable(TextFile(n, <<>>)) : n \in {REQUIREMENTS_TXT, GEMFILE_LOCK, GO_MOD}}
    \cup {JsonFile(doc) : doc \in JsonDocs}
    \cup {Unreadable(JsonFile(NoJson))}
    \cup {PomFile(doc) : doc \in PomDocs}

----------------------------------------------------------------------------
(* One call of a manifest parser, step by step *)

ParseInit ==
    /\ par_pc = "open"
    /\ par_file \in ParseInputs
    /\ par_i = 0
    /\ par_st = ParserStart
    /\ dependencies = <<>>
    /\ par_yield = <<>>
    /\ DetectIdle
    /\ ScanIdle
    /\ MainIdle

\* open(file_path, 'r') raises: the except clause prints and the parser
\* returns the empty list
ParOpenFails ==
    /\ par_pc = "open"
    /\ par_file.name # POM_XML
    /\ ~par_file.readable
    /\ par_pc' = "returned"
    /\ UNCHANGED <<par_file, par_i, par_st, dependencies, par_yield>>
    /\ UNCHANGED <<detVars, scanVars, mainVars>>

\* open succeeds
ParOpen ==
    /\ par_pc = "open"
    /\ par_file.name # POM_XML
    /\ par_file.readable
    /\ par_pc' = IF LineOriented(par_file.name) THEN "loop" ELSE "load"
    /\ UNCHANGED <<par_file, par_i, par_st, dependencies, par_yield>>
    /\ UNCHANGED <<detVars, scanVars, mainVars>>

\* one iteration of `for line in f`
ParLine ==
    /\ par_pc = "loop"
    /\ ~par_st.stopped
    /\ par_i < Len(par_file.lines)
    /\ LET r == LineStep(par_file.name, par_st, par_file.lines[par_i + 1])
       IN  /\ par_st' = r.st
           /\ dependencies' = dependencies \o r.out
           /\ par_yield' = Append(par_yield, [st |-> par_st, out |-> r.out])
    /\ par_i' = par_i + 1
    /\ UNCHANGED <<par_pc, par_file>>
    /\ UNCHANGED <<detVars, scanVars, mainVars>>

\* the loop ends (the file is exhausted, or break) and the parser returns
ParReturn ==
    /\ par_pc = "loop"
    /\ par_st.stopped \/ par_i = Len(par_file.lines)
    /\ par_pc' = "returned"
    /\ UNCHANGED <<par_file, par_i, par_st, dependencies, par_yield>>
    /\ UNCHANGED <<detVars, scanVars, mainVars>>

\* parse_javascript_file: json.load and the two section loops; a document
\* json.load rejects raises into the except clause
ParJson ==
    /\ par_pc = "load"
    /\ dependencies' = IF par_file.json.ok
                       THEN JsRecords(par_file.json, par_file.name) ELSE <<>>
    /\ par_pc' = "returned"
    /\ UNCHANGED <<par_file, par_i, par_st, par_yield>>
    /\ UNCHANGED <<detVars, scanVars, mainVars>>

\* parse_java_file on a pom.xml: the name ET is looked up first; it is not
\* bound, NameError is raised into the except clause
ParPom ==
    /\ par_pc = "open"
    /\ par_file.name = POM_XML
    /\ dependencies' = IF "ET" \in ModuleGlobals /\ par_file.readable /\ par_file.xml.ok
                       THEN PomRecords(par_file.xml) ELSE <<>>
    /\ par_pc' = "returned"
    /\ UNCHANGED <<par_file, par_i, par_st, par_yield>>
    /\ UNCHANGED <<detVars, scanVars, mainVars>>

ParseNext == ParOpenFails \/ ParOpen \/ ParLine \/ ParReturn \/ ParJson \/ ParPom

SpecParse == ParseInit /\ [][ParseNext]_vars

----------------------------------------------------------------------------
(* extract_code_dependencies *)

Quotes == {"'", "\""}

\* where `^\s*kw\s+` ends in s (the position after it), 0 when it does not match
AfterKeyword(s, kw) ==
    LET p0 == SkipWs(s, 1)
        p1 == p0 + Len(kw)
    IN  IF StartsWithAt(s, kw, p0) /\ p1 <= Len(s) /\ s[p1] \in Ws
        THEN SkipWs(s, p1) ELSE 0

\* the same for an alternation (?:kw1|kw2): the first alternative that matches
AfterFirstKeyword(s, kws) ==
    LET ok == {k \in DOMAIN kws : AfterKeyword(s, kws[k]) # 0}
    IN  IF ok = {} THEN 0 ELSE AfterKeyword(s, kws[Min(ok)])

\* a greedy group ([cls]+) at position p: the maximal run, None when empty
ClassRun(s, p, cls) ==
    IF p = 0 \/ SkipClass(s, p, cls) <= p THEN None
    ELSE SubSeq(s, p, SkipClass(s, p, cls) - 1)

\* a lazy group (.+?) that starts at position p and is followed by what stands
\* at one of the positions closers: the position of what follows, 0 when there
\* is none (a dot does not match a newline)
LazyEnd(s, p, closers) ==
    LET ends == {j \in (p + 1)..Len(s) :
                    j \in closers /\ \A k \in p..(j - 1) : s[k] # "\n"}
    IN  IF p = 0 \/ ends = {} THEN 0 ELSE Min(ends)

\* a normalisation that cuts at the last separator instead
TopSegmentLast(token, sep) == RSplitFirst(token, sep)

\* the normalisation most scanners apply: token.split(sep)[0]
TopSegment(token, sep) == SplitFirst(token, sep)

\* an import found in a source file: the module reference matched and the
\* name appended to the list
Import(token, name) == [token |-> token, name |-> name]

\* Python: ^\s*(?:from|import)\s+([\w\.]+) matched at the start of the line
PyLine(line) ==
    LET p     == AfterFirstKeyword(line, << <<"f","r","o","m">>, <<"i","m","p","o","r","t">> >>)
        token == ClassRun(line, p, WordChars \cup {"."})
    IN  IF token = None THEN <<>>
        ELSE <<Import(token, TopSegment(token, <<".">>))>>

\* Ruby: ^\s*(?:require|require_relative)\s+['"](.+?)['"]
RubyLine(line) ==
    LET p == AfterFirstKeyword(line, << <<"r","e","q","u","i","r","e">>, <<"r","e","q","u","i","r","e","_","r","e","l","a","t","i","v","e">> >>)
        e == IF p # 0 /\ p <= Len(line) /\ line[p] \in Quotes
             THEN LazyEnd(line, p + 1, {j \in DOMAIN line : line[j] \in Quotes}) ELSE 0
    IN  IF e = 0 THEN <<>>
        ELSE <<Import(SubSeq(line, p + 1, e - 1),
                      TopSegment(SubSeq(line, p + 1, e - 1), <<"/">>))>>

\* str.replace(ch, '')
Remove(s, ch) == SelectSeq(s, LAMBDA c : c # ch)

\* Go: ^\s*import\s+["(](.+?)[")] searched in the line; the group is
\* stripped, its first whitespace-separated part loses its quotes
GoLine(line) ==
    LET p == AfterKeyword(line, <<"i","m","p","o","r","t">>)
        e == IF p # 0 /\ p <= Len(line) /\ line[p] \in {"\"", "("}
             THEN LazyEnd(line, p + 1, {j \in DOMAIN line : line[j] \in {"\"", ")"}}) ELSE 0
    IN  IF e = 0 THEN <<>>
        ELSE LET imp == Strip(SubSeq(line, p + 1, e - 1))
             IN  IF imp = <<>> THEN <<>>
                 ELSE LET dep == Remove(SplitWs(imp)[1], "\"")
                      IN  <<Import(dep, TopSegment(dep, <<"/">>))>>

\* Java import_pattern: ^\s*import\s+(?:static\s+)?([\w.*]+)\s*; the group
\* at position p, None when the rest does not match
JavaClassAt(line, p) ==
    LET cls == WordChars \cup {".", "*"}
        e   == SkipClass(line, p, cls)
        s   == SkipWs(line, e)
    IN  IF p # 0 /\ e > p /\ s <= Len(line) /\ line[s] = ";"
        THEN SubSeq(line, p, e - 1) ELSE None

\* the optional static is tried first, then the pattern without it
JavaFullClass(line) ==
    LET p  == AfterKeyword(line, <<"i","m","p","o","r","t">>)
        ps == IF p # 0 /\ StartsWithAt(line, <<"s","t","a","t","i","c">>, p)
                       /\ p + 6 <= Len(line) /\ line[p + 6] \in Ws
              THEN SkipWs(line, p + 6) ELSE 0
    IN  IF JavaClassAt(line, ps) # None THEN JavaClassAt(line, ps)
        ELSE JavaClassAt(line, p)

\* Java: an import with a dot contributes full_class.rsplit('.', 1)[0]; the
\* package declaration only sets a local that is never read
JavaLine(line) ==
    LET full_class == JavaFullClass(line)
    IN  IF full_class # None /\ Occurrences(full_class, <<".">>) # {}
        THEN <<Import(full_class, RSplitFirst(full_class, <<".">>))>>
        ELSE <<>>

\* Rust: both patterns start with ^ and are given to findall on the whole
\* content without re.MULTILINE, so each matches at most once, at its start
RustContent(content) ==
    LET use    == ClassRun(content, AfterKeyword(content, <<"u","s","e">>),
                           WordChars \cup {":"})
        pe     == AfterKeyword(content, <<"e","x","t","e","r","n">>)
        pc     == IF pe # 0 /\ StartsWithAt(content, <<"c","r","a","t","e">>, pe)
                          /\ pe + 5 <= Len(content) /\ content[pe + 5] \in Ws
                  THEN SkipWs(content, pe + 5) ELSE 0
        extern == ClassRun(content, pc, WordChars)
    IN  (IF use = None THEN <<>> ELSE <<Import(use, TopSegment(use, <<":",":">>))>>)
        \o (IF extern = None THEN <<>>
            ELSE <<Import(extern, TopSegment(extern, <<":",":">>))>>)

\* JS/TS: require\(['"](.+?)['"]\)|from\s+['"](.+?)['"]|import\s+['"](.+?)['"]
\* tried at position p, the alternatives in order: the group and the position
\* after the match (0: no match at p)
JsQuoted(s, kw, p) ==
    LET p1 == p + Len(kw)
        q  == IF StartsWithAt(s, kw, p) /\ p1 <= Len(s) /\ s[p1] \in Ws
              THEN SkipWs(s, p1) ELSE 0
        e  == IF q # 0 /\ q <= Len(s) /\ s[q] \in Quotes
              THEN LazyEnd(s, q + 1, {j \in DOMAIN s : s[j] \in Quotes}) ELSE 0
    IN  IF e = 0 THEN [end |-> 0, group |-> None]
        ELSE [end |-> e + 1, group |-> SubSeq(s, q + 1, e - 1)]

JsRequire(s, p) ==
    LET kw == <<"r","e","q","u","i","r","e","(">>
        q  == p + Len(kw)
        e  == IF StartsWithAt(s, kw, p) /\ q <= Len(s) /\ s[q] \in Quotes
              THEN LazyEnd(s, q + 1,
                           {j \in DOMAIN s : s[j] \in Quotes /\ j + 1 <= Len(s) /\ s[j + 1] = ")"})
              ELSE 0
    IN  IF e = 0 THEN [end |-> 0, group |-> None]
        ELSE [end |-> e + 2, group |-> SubSeq(s, q + 1, e - 1)]

JsMatchAt(s, p) ==
    IF JsRequire(s, p).end # 0 THEN JsRequire(s, p)
    ELSE IF JsQuoted(s, <<"f","r","o","m">>, p).end # 0 THEN JsQuoted(s, <<"f","r","o","m">>, p)
    ELSE JsQuoted(s, <<"i","m","p","o","r","t">>, p)

\* pattern.findall(content): the leftmost match from each position on, the
\* search going on after it; each match has one non-empty group
RECURSIVE JsContentFrom(_, _)
JsContentFrom(s, p) ==
    IF p > Len(s) THEN <<>>
    ELSE LET m == JsMatchAt(s, p)
         IN  IF m.end = 0 THEN JsContentFrom(s, p + 1)
             ELSE <<Import(m.group, TopSegment(m.group, <<"/">>))>>
                  \o JsContentFrom(s, m.end)

JsContent(content) == JsContentFrom(content, 1)

\* f.read()
RECURSIVE Concat(_)
Concat(ls) == IF ls = <<>> THEN <<>> ELSE Head(ls) \o Concat(Tail(ls))

\* the branches of extract_code_dependencies
LineScanned == {"Python", "Go", "Ruby", "Java"}

ContentScanned == {"JavaScript", "TypeScript", "Rust"}

Scanned == LineScanned \cup ContentScanned

\* the suffixes file.endswith tests in each branch
SourceSuffixes(lang) ==
    CASE lang = "Python" -> {<<".","p","y">>}
      [] lang \in {"JavaScript", "TypeScript"} ->
            {<<".","j","s">>, <<".","j","s","x">>, <<".","t","s">>, <<".","t","s","x">>}
      [] lang = "Go"     -> {<<".","g","o">>}
      [] lang = "Rust"   -> {<<".","r","s">>}
      [] lang = "Ruby"   -> {<<".","r","b">>}
      [] lang = "Java"   -> {<<".","j","a","v","a">>}
      [] OTHER -> {}

IsSource(lang, name) == \E suf \in SourceSuffixes(lang) : EndsWith(name, suf)

LineImports(lang, line) ==
    CASE lang = "Python" -> PyLine(line)
      [] lang = "Go"     -> GoLine(line)
      [] lang = "Ruby"   -> RubyLine(line)
      [] lang = "Java"   -> JavaLine(line)

RECURSIVE LinesImports(_, _)
LinesImports(lang, ls) ==
    IF ls = <<>> THEN <<>>
    ELSE LineImports(lang, Head(ls)) \o LinesImports(lang, Tail(ls))

\* what reading one opened source file appends
FileImports(lang, file) ==
    IF lang \in LineScanned THEN LinesImports(lang, file.lines)
    ELSE IF lang = "Rust" THEN RustContent(Concat(file.lines))
    ELSE JsContent(Concat(file.lines))

\* 'code', the source of the records of the scanner
CODE == <<"c","o","d","e">>

\* the orders in which iterating over set(dependencies) can yield its elements
Orders(S) == {f \in [1..Cardinality(S) -> S] : \A i, j \in DOMAIN f : f[i] = f[j] => i = j}

\* [{'name': name, 'version': None, 'source': 'code'} for name in ...]
CodeRecords(order) == [k \in DOMAIN order |-> Rec(order[k], None, CODE)]

Names(log) == {log[k].name : k \in DOMAIN log}

----------------------------------------------------------------------------
(* The inputs of the scanner *)

\* Bound: the number of files in the tree the scanner walks.
MaxScanFiles == 2

\* a file that is no source file of any language
NotesTxt == TextFile(<<"n",".","t","x","t">>, << <<"i","m","p","o","r","t"," ","z","l","i","b">> >>)

SourceFiles(lang) ==
    CASE lang = "Python" ->
            {TextFile(<<"a",".","p","y">>, << <<"i","m","p","o","r","t"," ","f","l","a","s","k">>,
                   <<"f","r","o","m"," ","o","s",".","p","a","t","h"," ","i","m","p","o","r","t"," ","j","o","i","n">> >>),
             TextFile(<<"b",".","p","y">>, << <<" "," ","i","m","p","o","r","t"," ","a",".","b",".","c">>,
                   <<"x"," ","="," ","1">>,
                   <<"f","r","o","m"," ","."," ","i","m","p","o","r","t"," ","y">> >>)}
      [] lang = "Java" ->
            {TextFile(<<"A",".","j","a","v","a">>, << <<"p","a","c","k","a","g","e"," ","c","o","m",".","x",";">>,
                   <<"i","m","p","o","r","t"," ","a",".","b",".","C",";">>,
                   <<"i","m","p","o","r","t"," ","F","o","o",";">> >>),
             TextFile(<<"B",".","j","a","v","a">>, << <<"i","m","p","o","r","t"," ","s","t","a","t","i","c"," ","a",".","B",".","m",";">>,
                   <<"i","m","p","o","r","t"," ","j","a","v","a",".","u","t","i","l",".","*",";">> >>)}
      [] lang = "Ruby" ->
            {TextFile(<<"a",".","r","b">>, << <<"r","e","q","u","i","r","e"," ","'","j","s","o","n","'">>,
                   <<"r","e","q","u","i","r","e","_","r","e","l","a","t","i","v","e"," ","'","l","i","b","/","u","t","i","l","'">> >>),
             TextFile(<<"b",".","r","b">>, << <<"r","e","q","u","i","r","e"," ","\"","a","/","b","/","c","\"">>,
                   <<"p","u","t","s"," ","1">> >>)}
      [] lang = "Go" ->
            {TextFile(<<"m",".","g","o">>, << <<"i","m","p","o","r","t"," ","\"","f","m","t","\"">>,
                   <<"i","m","p","o","r","t"," ","\"","g","i","t","h","u","b",".","c","o","m","/","x","/","y","\"">> >>),
             TextFile(<<"n",".","g","o">>, << <<"i","m","p","o","r","t"," ","(","f"," ","\"","x","/","y","\"",")">>,
                   <<"i","m","p","o","r","t"," ","(","\"","a","/","b","\"",")">>,
                   <<"f","u","n","c"," ","m","a","i","n","(",")"," ","{","}">> >>)}
      [] lang = "Rust" ->
            {TextFile(<<"m",".","r","s">>, << <<"u","s","e"," ","s","t","d",":",":","i","o",":",":","R","e","a","d",";">>,
                   <<"e","x","t","e","r","n"," ","c","r","a","t","e"," ","s","e","r","d","e",";">> >>),
             TextFile(<<"l",".","r","s">>, << <<>>,
                   <<"e","x","t","e","r","n"," ","c","r","a","t","e"," ","s","e","r","d","e","_","j","s","o","n",";">>,
                   <<"u","s","e"," ","a",":",":","b",";">> >>)}
      [] lang = "JavaScript" ->
            {TextFile(<<"i",".","j","s">>, << <<"c","o","n","s","t"," ","a"," ","="," ","r","e","q","u","i","r","e","(","'","l","o","d","a","s","h","/","f","p","'",")",";">>,
                   <<"i","m","p","o","r","t"," ","x"," ","f","r","o","m"," ","\"","r","e","a","c","t","\"",";">> >>),
             TextFile(<<"j",".","j","s","x">>, << <<"i","m","p","o","r","t"," ","'",".","/","s","t","y","l","e",".","c","s","s","'",";">> >>)}
      [] lang = "TypeScript" ->
            {TextFile(<<"i",".","t","s">>, << <<"i","m","p","o","r","t"," ","y"," ","f","r","o","m"," ","'","@","s","/","p","k","g","/","s","u","b","'">>,
                   <<"e","x","p","o","r","t"," ","*"," ","f","r","o","m"," ","'","l","o","d","a","s","h","/","f","p","'">> >>),
             TextFile(<<"j",".","t","s","x">>, << <<"i","m","p","o","r","t"," ","'",".","/","s","t","y","l","e",".","c","s","s","'",";">> >>)}
      [] OTHER -> {}

\* the files a walked tree of a project of the lang is drawn from: its
\* source files, one of them unreadable, and a file of another kind
ScanFiles(lang) ==
    SourceFiles(lang)
    \cup {Unreadable(f) : f \in {g \in SourceFiles(lang) : Len(g.lines) = 2}}
    \cup {NotesTxt}

----------------------------------------------------------------------------
(* One call of extract_code_dependencies, step by step *)

ScanInit ==
    /\ scan_pc = "walk"
    /\ scan_lang \in Languages
    /\ scan_files \in SeqsUpTo(ScanFiles(scan_lang), MaxScanFiles)
    /\ scan_i = 0
    /\ scan_log = <<>>
    /\ code_deps = <<>>
    /\ DetectIdle
    /\ ParseIdle
    /\ MainIdle

\* a file of the walk whose name fails the endswith test
ScanSkip ==
    /\ scan_pc = "walk"
    /\ scan_lang \in Scanned
    /\ scan_i < Len(scan_files)
    /\ ~IsSource(scan_lang, scan_files[scan_i + 1].name)
    /\ scan_i' = scan_i + 1
    /\ UNCHANGED <<scan_pc, scan_lang, scan_files, scan_log, code_deps>>
    /\ UNCHANGED <<detVars, parVars, mainVars>>

\* a source file is opened and read, its imports are appended
ScanFile ==
    /\ scan_pc = "walk"
    /\ scan_lang \in Scanned
    /\ scan_i < Len(scan_files)
    /\ IsSource(scan_lang, scan_files[scan_i + 1].name)
    /\ scan_files[scan_i + 1].readable
    /\ scan_log' = scan_log \o FileImports(scan_lang, scan_files[scan_i + 1])
    /\ scan_i' = scan_i + 1
    /\ UNCHANGED <<scan_pc, scan_lang, scan_files, code_deps>>
    /\ UNCHANGED <<detVars, parVars, mainVars>>

\* open() or the read raises: no try statement encloses it, the exception
\* leaves extract_code_dependencies
ScanRaise ==
    /\ scan_pc = "walk"
    /\ scan_lang \in Scanned
    /\ scan_i < Len(scan_files)
    /\ IsSource(scan_lang, scan_files[scan_i + 1].name)
    /\ ~scan_files[scan_i + 1].readable
    /\ scan_pc' = "raised"
    /\ UNCHANGED <<scan_lang, scan_files, scan_i, scan_log, code_deps>>
    /\ UNCHANGED <<detVars, parVars, mainVars>>

\* the return statement: one record per element of set(dependencies), in
\* the order the set yields them
ScanReturn ==
    /\ scan_pc = "walk"
    /\ scan_lang \notin Scanned \/ scan_i = Len(scan_files)
    /\ \E order \in Orders(Names(scan_log)) : code_deps' = CodeRecords(order)
    /\ scan_pc' = "returned"
    /\ UNCHANGED <<scan_lang, scan_files, scan_i, scan_log>>
    /\ UNCHANGED <<detVars, parVars, mainVars>>

ScanNext == ScanSkip \/ ScanFile \/ ScanRaise \/ ScanReturn

SpecScan == ScanInit /\ [][ScanNext]_vars

----------------------------------------------------------------------------
(* find_dependency_files, parse_dependency_file and the scanner as functions *)

\* dependency_files_map.get(language, [])
dependency_files_map(lang) ==
    CASE lang = "Python" ->
            {REQUIREMENTS_TXT, <<"P","i","p","f","i","l","e">>, <<"p","y","p","r","o","j","e","c","t",".","t","o","m","l">>}
      [] lang = "JavaScript" -> {PACKAGE_JSON, <<"y","a","r","n",".","l","o","c","k">>}
      [] lang = "Java"       -> {POM_XML, <<"b","u","i","l","d",".","g","r","a","d","l","e">>}
      [] lang = "Ruby"       -> {<<"G","e","m","f","i","l","e">>}
      [] lang = "Go"         -> {GO_MOD}
      [] lang = "Rust"       -> {<<"C","a","r","g","o",".","t","o","m","l">>}
      [] lang = "TypeScript" -> {PACKAGE_JSON}
      [] OTHER -> {}

\* the files of the walk whose name is one of the targets, in walk order
find_dependency_files(files, lang) ==
    SelectSeq(files, LAMBDA f : f.name \in dependency_files_map(lang))

\* the line loop of a parser run to its end (or to its break)
RECURSIVE ParseLinesFrom(_, _, _)
ParseLinesFrom(name, st, ls) ==
    IF ls = <<>> \/ st.stopped THEN <<>>
    ELSE LET r == LineStep(name, st, Head(ls))
         IN  r.out \o ParseLinesFrom(name, r.st, Tail(ls))

ParseLines(file) ==
    IF file.readable THEN ParseLinesFrom(file.name, ParserStart, file.lines) ELSE <<>>

\* parse_javascript_file
parse_javascript_file(file) ==
    IF file.readable /\ file.json.ok THEN JsRecords(file.json, file.name) ELSE <<>>

\* parse_java_file on a pom.xml
parse_java_file(file) ==
    IF "ET" \in ModuleGlobals /\ file.readable /\ file.xml.ok
    THEN PomRecords(file.xml) ELSE <<>>

\* parse_dependency_file for the manifests of the model: requirements.txt,
\* go.mod, package.json and pom.xml (no tree of the model holds a Pipfile, a
\* pyproject.toml, a build.gradle, a Gemfile or a Cargo.toml, whose
\* branches are left out)
parse_dependency_file(file, lang) ==
    CASE lang = "Python" /\ file.name = REQUIREMENTS_TXT -> ParseLines(file)
      [] lang \in {"JavaScript", "TypeScript"} -> parse_javascript_file(file)
      [] lang = "Go" -> ParseLines([file EXCEPT !.name = GO_MOD])
      [] lang = "Java" /\ file.name = POM_XML -> parse_java_file(file)
      [] OTHER -> <<>>

\* the walk of extract_code_dependencies run to its end: the imports
\* appended, or raised = TRUE when a source file cannot be read
RECURSIVE ScanFrom(_, _)
ScanFrom(lang, files) ==
    IF files = <<>> THEN [raised |-> FALSE, log |-> <<>>]
    ELSE IF ~IsSource(lang, Head(files).name) THEN ScanFrom(lang, Tail(files))
    ELSE IF ~Head(files).readable THEN [raised |-> TRUE, log |-> <<>>]
    ELSE LET rest == ScanFrom(lang, Tail(files))
         IN  [raised |-> rest.raised,
              log    |-> FileImports(lang, Head(files)) \o rest.log]

ScanAll(lang, files) ==
    IF lang \in Scanned THEN ScanFrom(lang, files)
    ELSE [raised |-> FALSE, log |-> <<>>]

----------------------------------------------------------------------------
(* The inputs of main *)

\* Bound: the number of files in the project tree given to main.
MaxTree == 3

\* the files a project tree is drawn from; a name that occurs twice in a
\* tree stands for files of that name in two directories
TreeFiles == {
    TextFile(REQUIREMENTS_TXT, << <<"f","l","a","s","k","=","=","2",".","0",".","1">>,
                   <<"r","e","q","u","e","s","t","s">> >>),
    TextFile(REQUIREMENTS_TXT, << <<"f","l","a","s","k","=","=","1",".","0">>,
                   <<"f","l","a","s","k">> >>),
    Unreadable(TextFile(REQUIREMENTS_TXT, <<>>)),
    TextFile(<<"a",".","p","y">>, << <<"i","m","p","o","r","t"," ","f","l","a","s","k">>,
                   <<"f","r","o","m"," ","o","s",".","p","a","t","h"," ","i","m","p","o","r","t"," ","j","o","i","n">> >>),
    Unreadable(TextFile(<<"b",".","p","y">>, << <<"i","m","p","o","r","t"," ","r","e","q","u","e","s","t","s">> >>)),
    TextFile(<<"i",".","j","s">>, << <<"c","o","n","s","t"," ","a"," ","="," ","r","e","q","u","i","r","e","(","'","l","o","d","a","s","h","/","f","p","'",")",";">>,
                   <<"i","m","p","o","r","t"," ","x"," ","f","r","o","m"," ","\"","r","e","a","c","t","\"",";">> >>),
    TextFile(GO_MOD, << <<"r","e","q","u","i","r","e"," ","(">>,
                   <<"\t","a","/","b"," ","v","1">>,
                   <<")">> >>),
    TextFile(<<"m",".","g","o">>, << <<"i","m","p","o","r","t"," ","\"","a","/","b","\"">>,
                   <<"i","m","p","o","r","t"," ","\"","f","m","t","\"">> >>),
    JsonFile([ok |-> TRUE,
              dependencies |-> << << <<"l","o","d","a","s","h">>, <<"^","4">> >> >>,
              devDependencies |-> << << <<"l","o","d","a","s","h">>, <<"^","3">> >> >>]) }

----------------------------------------------------------------------------
(* main *)

Init ==
    /\ main_pc = "start"
    /\ directory \in {[isdir |-> FALSE, files |-> <<>>]}
                    \cup {[isdir |-> TRUE, files |-> fs] : fs \in SeqsUpTo(TreeFiles, MaxTree)}
    /\ language = NoneLang
    /\ dep_files = <<>>
    /\ parse_k = 0
    /\ main_dependencies = <<>>
    /\ DedupIdle
    /\ DetectIdle
    /\ ParseIdle
    /\ ScanIdle

\* items.extend(list) with the arguments exchanged
ExtendFront(list, items) == items \o list

\* list.extend(items)
Extend(list, items) == list \o items

\* not os.path.isdir(args.directory): the message is printed, main returns
MainInvalidRoot ==
    /\ main_pc = "start"
    /\ ~directory.isdir
    /\ main_pc' = "invalid"
    /\ UNCHANGED <<directory, language, dep_files, parse_k, main_dependencies>>
    /\ UNCHANGED dedupVars
    /\ UNCHANGED <<detVars, parVars, scanVars>>

\* language = detect_language(args.directory); without a language main
\* prints the message and returns
MainDetect ==
    /\ main_pc = "start"
    /\ directory.isdir
    /\ language' = detect_language([i \in DOMAIN directory.files |-> directory.files[i].name])
    /\ main_pc' = IF language' = NoneLang THEN "undetected" ELSE "find"
    /\ UNCHANGED <<directory, dep_files, parse_k, main_dependencies>>
    /\ UNCHANGED dedupVars
    /\ UNCHANGED <<detVars, parVars, scanVars>>

\* dep_files = find_dependency_files(args.directory, language)
MainFind ==
    /\ main_pc = "find"
    /\ dep_files' = find_dependency_files(directory.files, language)
    /\ main_pc' = "parse"
    /\ UNCHANGED <<directory, language, parse_k, main_dependencies>>
    /\ UNCHANGED dedupVars
    /\ UNCHANGED <<detVars, parVars, scanVars>>

\* one iteration of `for file_path in dep_files`
MainParse ==
    /\ main_pc = "parse"
    /\ parse_k < Len(dep_files)
    /\ main_dependencies' =
          Extend(main_dependencies, parse_dependency_file(dep_files[parse_k + 1], language))
    /\ parse_k' = parse_k + 1
    /\ UNCHANGED <<main_pc, directory, language, dep_files>>
    /\ UNCHANGED dedupVars
    /\ UNCHANGED <<detVars, parVars, scanVars>>

\* code_deps = extract_code_dependencies(...) raises: main has no handler,
\* the program ends with a traceback and prints no report
MainScanRaises ==
    /\ main_pc = "parse"
    /\ parse_k = Len(dep_files)
    /\ ScanAll(language, directory.files).raised
    /\ main_pc' = "crashed"
    /\ UNCHANGED <<directory, language, dep_files, parse_k, main_dependencies>>
    /\ UNCHANGED dedupVars
    /\ UNCHANGED <<detVars, parVars, scanVars>>

\* code_deps = extract_code_dependencies(...); dependencies.extend(code_deps)
MainScan ==
    /\ main_pc = "parse"
    /\ parse_k = Len(dep_files)
    /\ \E scan \in {ScanAll(language, directory.files)} :
          /\ ~scan.raised
          /\ \E order \in Orders(Names(scan.log)) :
                main_dependencies' = Extend(main_dependencies, CodeRecords(order))
    /\ main_pc' = "dedup"
    /\ UNCHANGED <<directory, language, dep_files, parse_k>>
    /\ UNCHANGED dedupVars
    /\ UNCHANGED <<detVars, parVars, scanVars>>

\* a key that ignores the source
DedupKeyNameOnly(dep) == <<dep.name, dep.name>>

\* key = (dep['name'], dep['source'])
DedupKey(dep) == <<dep.name, dep.source>>

\* one iteration of `for dep in dependencies`
MainDedup ==
    /\ main_pc = "dedup"
    /\ dedup_k < Len(main_dependencies)
    /\ LET dep == main_dependencies[dedup_k + 1]
           key == DedupKey(dep)
       IN  IF key \notin seen
           THEN /\ seen' = seen \cup {key}
                /\ unique_deps' = Append(unique_deps, dep)
           ELSE UNCHANGED <<seen, unique_deps>>
    /\ dedup_k' = dedup_k + 1
    /\ UNCHANGED report
    /\ UNCHANGED <<main_pc, directory, language, dep_files, parse_k, main_dependencies>>
    /\ UNCHANGED <<detVars, parVars, scanVars>>

\* the report is built and printed
MainReport ==
    /\ main_pc = "dedup"
    /\ dedup_k = Len(main_dependencies)
    /\ report' = [language |-> language, dependencies |-> unique_deps]
    /\ main_pc' = "done"
    /\ UNCHANGED <<seen, unique_deps, dedup_k>>
    /\ UNCHANGED <<directory, language, dep_files, parse_k, main_dependencies>>
    /\ UNCHANGED <<detVars, parVars, scanVars>>

Next ==
    \/ MainInvalidRoot
    \/ MainDetect
    \/ MainFind
    \/ MainParse
    \/ MainScanRaises
    \/ MainScan
    \/ MainDedup
    \/ MainReport

Spec == Init /\ [][Next]_vars

----------------------------------------------------------------------------
(* Properties of detect_language *)

\* the languages whose extension list holds the file's extension
LangsOfFile(file) ==
    {l \in Languages : \E ext \in {Lower(SplitExt(file))} : ext \in ExtsOf[l]}

\* for each language, the number of files of the tree that count for it
NumFiles(files) ==
    LET N(fl) == [l \in Languages |-> Cardinality({i \in DOMAIN files : l \in fl[i]})]
    IN  CHOOSE n \in {N(fl) : fl \in {[i \in DOMAIN files |-> LangsOfFile(files[i])]}} : TRUE

\* the place of each language in the language table
DeclIndexOf ==
    [l \in Languages |->
        CHOOSE i \in DOMAIN language_extensions : language_extensions[i].lang = l]

DeclIndex(l) == DeclIndexOf[l]

Reverse(s) == [i \in DOMAIN s |-> s[Len(s) + 1 - i]]

\* C3: the language returned is, among the languages tied for the maximum
\* file count, the one declared first in the language table, whatever the
\* order in which the files were visited.
C3_TieBreakDeclarationOrder ==
    (det_pc = "returned" /\ det_result # NoneLang) =>
        \A n \in {NumFiles(det_files)} :
            /\ \A l \in Languages :
                  /\ n[l] <= n[det_result]
                  /\ n[l] = n[det_result] => DeclIndex(det_result) <= DeclIndex(l)
            /\ detect_language(Reverse(det_files)) = det_result

\* two languages are tied for a positive maximum and the file visited first
\* belongs to the one declared later
C3_Witness ==
    /\ det_pc = "returned"
    /\ \E n \in {NumFiles(det_files)} :
           \E l1, l2 \in Languages :
              /\ DeclIndex(l1) < DeclIndex(l2)
              /\ n[l1] = n[l2]
              /\ n[l1] > 0
              /\ \A l \in Languages : n[l] <= n[l1]
              /\ l2 \in LangsOfFile(det_files[1])
              /\ det_result = l1

\* C9: None is returned exactly when no file has an extension of the table;
\* otherwise the language returned has a positive count equal to the maximum,
\* and a tree whose files all belong to one language yields that language.
C9_NoneIffNoKnownExtension ==
    det_pc = "returned" =>
        \A n \in {NumFiles(det_files)} :
            /\ det_result = NoneLang <=> \A l \in Languages : n[l] = 0
            /\ det_result # NoneLang =>
                  /\ n[det_result] > 0
                  /\ \A l \in Languages : n[l] <= n[det_result]
            /\ \A l \in Languages :
                  (det_files # <<>> /\ n[l] = Len(det_files)) => det_result = l

\* a tree of several files, none with a known extension, returned None
C9_WitnessNone ==
    /\ det_pc = "returned"
    /\ Len(det_files) >= 2
    /\ det_result = NoneLang

----------------------------------------------------------------------------
(* Properties of the manifest parsers *)

\* C4: every record a parser has produced has a version that is a non-empty
\* string or None, never the empty string.
C4_VersionNeverEmpty ==
    \A i \in DOMAIN dependencies : dependencies[i].version # <<>>

\* C5: for a well-formed pom.xml, parse_java_file returns one record per
\* dependency element, in document order, named groupId:artifactId, with
\* the text of the version child or None.
C5_PomOneRecordPerDependency ==
    (/\ par_pc = "returned"
     /\ par_file.name = POM_XML
     /\ par_file.readable
     /\ par_file.xml.ok) =>
        /\ Len(dependencies) = Len(par_file.xml.deps)
        /\ \A i \in DOMAIN dependencies :
              /\ dependencies[i].name =
                    par_file.xml.deps[i].groupId \o <<":">> \o par_file.xml.deps[i].artifactId
              /\ dependencies[i].version = par_file.xml.deps[i].version
              /\ dependencies[i].source = POM_XML

\* the stripped text of line i of the file being parsed
Stripped(i) == Strip(par_file.lines[i])

\* the local state the parser was left in by line i
StateAfter(i) == IF i < par_i THEN par_yield[i + 1].st ELSE par_st

\* the places of the lines equal to GEMS, and of the blank lines after the
\* first of them
GemsAt == {i \in DOMAIN par_file.lines : Stripped(i) = <<"G","E","M","S">>}

BlankAfterGems ==
    {i \in DOMAIN par_file.lines : GemsAt # {} /\ i > Min(GemsAt) /\ Stripped(i) = <<>>}

\* C6: in Gemfile.lock no line up to the first GEMS line yields a record;
\* after it a specs: line yields none and a non-blank line of two or more
\* tokens yields one record (first token, second token without its
\* parentheses); the first blank line after GEMS is the last line read; the
\* example yields exactly rails 7.0.0 and nokogiri 1.14.0.
C6_GemLockStateMachine ==
    par_file.name = GEMFILE_LOCK =>
        /\ \A i \in 1..par_i :
              LET line  == Stripped(i)
                  parts == SplitWs(line)
                  out   == par_yield[i].out
              IN  /\ (GemsAt = {} \/ i <= Min(GemsAt)) => out = <<>>
                  /\ (GemsAt # {} /\ i > Min(GemsAt)) =>
                        /\ StartsWith(line, <<"s","p","e","c","s",":">>) => out = <<>>
                        /\ line = <<>> => out = <<>>
                        /\ (/\ ~StartsWith(line, <<"s","p","e","c","s",":">>)
                            /\ Len(parts) >= 2) =>
                              out = <<Rec(parts[1], StripChars(parts[2], {"(", ")"}),
                                          GEMFILE_LOCK)>>
        /\ BlankAfterGems # {} => par_i <= Min(BlankAfterGems)
        /\ par_pc = "returned" /\ par_file.readable =>
              /\ par_i = IF BlankAfterGems # {} THEN Min(BlankAfterGems)
                         ELSE Len(par_file.lines)
              /\ Len(dependencies) = Cardinality({i \in 1..par_i : par_yield[i].out # <<>>})
              /\ par_file.lines = WithNewlines(GemLockExample) =>
                    dependencies = <<Rec(<<"r","a","i","l","s">>, <<"7",".","0",".","0">>, GEMFILE_LOCK),
                                     Rec(<<"n","o","k","o","g","i","r","i">>, <<"1",".","1","4",".","0">>, GEMFILE_LOCK)>>

\* the parser returned two records and left a second GEMS block unread
C6_Witness ==
    /\ par_pc = "returned"
    /\ par_file.name = GEMFILE_LOCK
    /\ Len(dependencies) = 2
    /\ \E j \in DOMAIN par_file.lines :
          /\ j > par_i + 1
          /\ Len(SplitWs(Stripped(j))) >= 2
          /\ \E g \in GemsAt : par_i < g /\ g < j

\* C7: in go.mod a line beginning with `require (` enters block mode, which
\* lasts until a line equal to `)`; in the block a line of two or more tokens
\* that is no // comment yields one record (path, version), a comment or a
\* blank line yields none; after `)` the parser is in line mode again, where
\* `require <module> <version>` yields one record; a block of three module
\* lines yields three records.
C7_GoModBlockMode ==
    par_file.name = GO_MOD =>
        /\ \A i \in 1..par_i :
              LET line  == Stripped(i)
                  parts == SplitWs(line)
                  block == par_yield[i].st.in_block
                  out   == par_yield[i].out
              IN  /\ i = 1 => ~block
                  /\ ~block =>
                        /\ StateAfter(i).in_block <=> StartsWith(line, <<"r","e","q","u","i","r","e"," ","(">>)
                        /\ StartsWith(line, <<"r","e","q","u","i","r","e"," ","(">>) => out = <<>>
                        /\ (/\ Len(parts) = 3
                            /\ parts[1] = <<"r","e","q","u","i","r","e">>
                            /\ ~StartsWith(line, <<"r","e","q","u","i","r","e"," ","(">>)) =>
                              out = <<Rec(parts[2], parts[3], GO_MOD)>>
                  /\ block =>
                        /\ StateAfter(i).in_block <=> line # <<")">>
                        /\ line = <<")">> => out = <<>>
                        /\ (line = <<>> \/ StartsWith(line, <<"/","/">>)) => out = <<>>
                        /\ (/\ line # <<")">>
                            /\ Len(parts) >= 2
                            /\ ~StartsWith(line, <<"/","/">>)) =>
                              out = <<Rec(parts[1], parts[2], GO_MOD)>>
        /\ par_pc = "returned" /\ par_file.readable =>
              /\ par_i = Len(par_file.lines)
              /\ Len(dependencies) = Cardinality({i \in 1..par_i : par_yield[i].out # <<>>})
              /\ par_file.lines = WithNewlines(GoModExample) =>
                    dependencies = <<Rec(<<"a","/","b">>, <<"v","1">>, GO_MOD),
                                     Rec(<<"c">>, <<"v","2">>, GO_MOD),
                                     Rec(<<"d">>, <<"v","3">>, GO_MOD),
                                     Rec(<<"e">>, <<"v","4">>, GO_MOD)>>

\* a block of three module lines and a comment was read and closed, and a
\* standalone require after it yielded the fourth record
C7_Witness ==
    /\ par_pc = "returned"
    /\ par_file.name = GO_MOD
    /\ Len(dependencies) = 4
    /\ \E i \in 1..par_i :
          /\ par_yield[i].st.in_block
          /\ StartsWith(Stripped(i), <<"/","/">>)
    /\ ~par_yield[par_i].st.in_block
    /\ par_yield[par_i].out # <<>>

----------------------------------------------------------------------------
(* Properties of extract_code_dependencies *)

\* the separator of module references in each language
Separator(lang) ==
    CASE lang \in {"JavaScript", "TypeScript", "Go", "Ruby"} -> <<"/">>
      [] lang = "Rust" -> <<":",":">>
      [] lang \in {"Python", "Java"} -> <<".">>

\* name is the part of token before its first separator (all of it when it
\* has none)
IsTopLevelSegment(name, token, sep) ==
    /\ Occurrences(name, sep) = {}
    /\ \/ name = token
       \/ /\ Len(name) < Len(token)
          /\ name = SubSeq(token, 1, Len(name))
          /\ StartsWithAt(token, sep, Len(name) + 1)
          /\ \A i \in 1..Len(name) : ~StartsWithAt(token, sep, i)

\* name is token without its last dotted segment
IsWithoutLastSegment(name, token) ==
    /\ Len(name) < Len(token)
    /\ name = SubSeq(token, 1, Len(name))
    /\ token[Len(name) + 1] = "."
    /\ \A i \in (Len(name) + 2)..Len(token) : token[i] # "."

\* the records returned carry the names appended, each once
ReturnsTheNames ==
    scan_pc = "returned" =>
        /\ {code_deps[k].name : k \in DOMAIN code_deps} = Names(scan_log)
        /\ Len(code_deps) = Cardinality(Names(scan_log))

----------------------------------------------------------------------------
(* Properties of main *)

\* the places of the records whose (name, source) pair occurs for the first time
FirstPlaces(deps) ==
    {i \in DOMAIN deps :
        \A j \in 1..(i - 1) :
            ~(deps[j].name = deps[i].name /\ deps[j].source = deps[i].source)}

\* the records at the places P, in order
RECURSIVE AtPlaces(_, _)
AtPlaces(deps, P) ==
    IF P = {} THEN <<>>
    ELSE <<deps[Min(P)]>> \o AtPlaces(deps, P \ {Min(P)})

\* C1: the report's dependencies hold no two records with the same
\* (name, source) pair; the record kept for a pair is the first one of the
\* list of the parsers' records followed by the scanner's, unaltered, and
\* the records kept are in the order of their first occurrences.
C1_DedupFirstOccurrence ==
    main_pc = "done" =>
        /\ \A i, j \in DOMAIN report.dependencies :
              (/\ report.dependencies[i].name = report.dependencies[j].name
               /\ report.dependencies[i].source = report.dependencies[j].source) => i = j
        /\ report.dependencies = AtPlaces(main_dependencies, FirstPlaces(main_dependencies))

\* a report was printed from a list in which a pair occurs twice with two
\* versions and in which a name occurs under two sources
C1_Witness ==
    /\ main_pc = "done"
    /\ \E i, j \in DOMAIN main_dependencies :
          /\ i < j
          /\ main_dependencies[i].name = main_dependencies[j].name
          /\ main_dependencies[i].source = main_dependencies[j].source
          /\ main_dependencies[i].version # main_dependencies[j].version
    /\ \E i, j \in DOMAIN report.dependencies :
          /\ report.dependencies[i].name = report.dependencies[j].name
          /\ report.dependencies[i].source # report.dependencies[j].source

\* C2: with a valid root and a language detected, a file that cannot be
\* read never aborts the scan: a report is still produced.
C2_ReadFailureNeverAborts ==
    (directory.isdir /\ language # NoneLang) => main_pc # "crashed"

\* the records of the manifests of the tree, file by file in walk order
RECURSIVE ManifestRecords(_, _)
ManifestRecords(files, lang) ==
    IF files = <<>> THEN <<>>
    ELSE (IF Head(files).name \in dependency_files_map(lang)
          THEN parse_dependency_file(Head(files), lang) ELSE <<>>)
         \o ManifestRecords(Tail(files), lang)

\* C10: in the report every record of a manifest precedes every record of
\* the scanner; the records of the manifests are in the order in which the
\* manifest files were found and, within a file, declared (duplicates
\* dropped), and the records of the scanner follow, each name once.
C10_ManifestsBeforeCode ==
    main_pc = "done" =>
        \A d \in {report.dependencies} :
            /\ \A i, j \in DOMAIN d : (i < j /\ d[i].source = CODE) => d[j].source = CODE
            /\ \A m \in {ManifestRecords(directory.files, language)} :
                  SelectSeq(d, LAMBDA r : r.source # CODE) = AtPlaces(m, FirstPlaces(m))
            /\ {r.name : r \in {d[i] : i \in {k \in DOMAIN d : d[k].source = CODE}}}
                  = Names(ScanAll(language, directory.files).log)

\* a report holds the records of two manifest files, a duplicate among them
\* dropped, and after them records of the scanner
C10_Witness ==
    /\ main_pc = "done"
    /\ Len(dep_files) >= 2
    /\ \E i \in DOMAIN report.dependencies : report.dependencies[i].source = CODE
    /\ report.dependencies[1].source # CODE
    /\ Len(report.dependencies) < Len(main_dependencies)
    /\ \E i, j \in DOMAIN report.dependencies :
          /\ i < j
          /\ report.dependencies[j].source # CODE
          /\ \E k \in DOMAIN ParseLines(dep_files[1]) :
                report.dependencies[i] = ParseLines(dep_files[1])[k]
          /\ \E k \in DOMAIN ParseLines(dep_files[2]) :
                report.dependencies[j] = ParseLines(dep_files[2])[k]

====
